---- MODULE Spec2Model ----
(***************************************************************************)
(* Quiz generator: the generation-and-validation pipeline.                 *)
(*                                                                         *)
(* Text is a sequence of tokens.  Inside a field value a token is one      *)
(* character class ("sp", "nl" are whitespace) or one opaque run of        *)
(* characters.  In an LLM or agent response the tokens are:                *)
(*   "{" "}"        the brace characters                                   *)
(*   "qs["  "]"     the text  "questions": [   and its closing bracket     *)
(*   "w"            a run of prose without braces                          *)
(*   "sp"           a run of whitespace                                    *)
(*   "FA"           the marker  Final Answer:                              *)
(*   "num"          a JSON number literal                                  *)
(*   a member of QuestionTokens / VerdictTokens: the key/value text of one *)
(*   JSON object (no braces inside), whose content is RawQuestion(tok) /   *)
(*   RawVerdict(tok).                                                      *)
(***************************************************************************)
EXTENDS Integers, Sequences, FiniteSets, TLC

\* ---------------------------------------------------------------- bounds
\* calls of generate_quiz_stream in one run of the demo UI
MaxGenerations == 3
\* questions in one LLM response
MaxQuestions == 2
\* tokens of prose before, and after, the JSON object of an LLM response
MaxProse == 1

\* ---------------------------------------------------------------- strings
WS == {"sp", "nl"}

RECURSIVE lstrip(_)
lstrip(s) == IF s # <<>> /\ Head(s) \in WS THEN lstrip(Tail(s)) ELSE s

RECURSIVE rstrip(_)
rstrip(s) ==
    IF s # <<>> /\ s[Len(s)] \in WS THEN rstrip(SubSeq(s, 1, Len(s) - 1)) ELSE s

\* a strip that leaves the whitespace at the end
strip_left(s) == lstrip(s)

\* str.strip()
strip(s) == rstrip(lstrip(s))

\* sequences over S of length at most n
SeqsUpTo(S, n) == UNION {[1..k -> S] : k \in 0..n}

RECURSIVE Concat(_)
Concat(ss) == IF ss = <<>> THEN <<>> ELSE Head(ss) \o Concat(Tail(ss))

\* indices of the first / last occurrence of token c in s, 0 when there is none
FirstIndex(s, c) ==
    IF \E i \in 1..Len(s) : s[i] = c
    THEN CHOOSE i \in 1..Len(s) : s[i] = c /\ \A j \in 1..(i - 1) : s[j] # c
    ELSE 0

LastIndex(s, c) ==
    IF \E i \in 1..Len(s) : s[i] = c
    THEN CHOOSE i \in 1..Len(s) : s[i] = c /\ \A j \in (i + 1)..Len(s) : s[j] # c
    ELSE 0

\* ---------------------------------------------------------------- values
NoneVal == [kind |-> "None"]

\* a source string: its first four characters and its length
Url(head, n) == [type |-> "str", head |-> head, len |-> n]
GoodUrl == Url("http", 19)
ShortUrl == Url("http", 8)
NotUrl == Url("n/a", 3)
IntSource == [type |-> "int", head |-> "", len |-> 0]

VerdictTokens == {"vTrue", "vFalse", "vNull", "vBadSrc", "vNoExpl", "vIntSrc"}

\* the JSON object a verdict token stands for
RawVerdict(tok) ==
    CASE tok = "vTrue" ->
           [has_explanation |-> TRUE, is_correct |-> "true",
            explanation |-> <<"supported">>, sources |-> <<GoodUrl>>]
      [] tok = "vFalse" ->
           [has_explanation |-> TRUE, is_correct |-> "false",
            explanation |-> <<"contradicted">>, sources |-> <<>>]
      [] tok = "vNull" ->
           [has_explanation |-> TRUE, is_correct |-> "None",
            explanation |-> <<"inconclusive">>, sources |-> <<GoodUrl, GoodUrl>>]
      [] tok = "vBadSrc" ->
           [has_explanation |-> TRUE, is_correct |-> "true",
            explanation |-> <<"supported">>,
            sources |-> <<NotUrl, GoodUrl, ShortUrl>>]
      [] tok = "vNoExpl" ->
           [has_explanation |-> FALSE, is_correct |-> "true",
            explanation |-> <<>>, sources |-> <<GoodUrl>>]
      [] tok = "vIntSrc" ->
           [has_explanation |-> TRUE, is_correct |-> "true",
            explanation |-> <<"supported">>, sources |-> <<IntSource>>]

NoValidationKey == [present |-> FALSE, verdict |-> "vNull"]

QuestionTokens == {"qA", "qB", "qUpper", "qInj", "qBlank", "qNl"}

\* the JSON object a question token stands for
RawQuestion(tok) ==
    CASE tok = "qA" ->
           [question |-> <<"x">>, option_a |-> <<"a1">>, option_b |-> <<"b1">>,
            option_c |-> <<"c1">>, option_d |-> <<"d1">>,
            correct_answer |-> <<"a">>, explanation |-> <<"because">>,
            validation |-> NoValidationKey]
      [] tok = "qB" ->
           [question |-> <<"sp", "y", "sp", "z", "nl">>, option_a |-> <<"a2">>,
            option_b |-> <<"b2", "sp">>, option_c |-> <<"c2">>,
            option_d |-> <<"d2">>, correct_answer |-> <<"c">>,
            explanation |-> <<"sp", "since">>, validation |-> NoValidationKey]
      [] tok = "qUpper" ->
           [question |-> <<"x">>, option_a |-> <<"a1">>, option_b |-> <<"b1">>,
            option_c |-> <<"c1">>, option_d |-> <<"d1">>,
            correct_answer |-> <<"A">>, explanation |-> <<"because">>,
            validation |-> NoValidationKey]
      [] tok = "qInj" ->
           [question |-> <<"v">>, option_a |-> <<"a3">>, option_b |-> <<"b3">>,
            option_c |-> <<"c3">>, option_d |-> <<"d3">>,
            correct_answer |-> <<"d">>, explanation |-> <<"because">>,
            validation |-> [present |-> TRUE, verdict |-> "vTrue"]]
      [] tok = "qBlank" ->
           [question |-> <<"x">>, option_a |-> <<"a1">>, option_b |-> <<"b1">>,
            option_c |-> <<"sp", "nl">>, option_d |-> <<"d1">>,
            correct_answer |-> <<"a">>, explanation |-> <<"because">>,
            validation |-> NoValidationKey]
      [] tok = "qNl" ->
           [question |-> <<"x">>, option_a |-> <<"a1">>, option_b |-> <<"b1">>,
            option_c |-> <<"c1">>, option_d |-> <<"d1">>,
            correct_answer |-> <<"a", "nl">>, explanation |-> <<"because">>,
            validation |-> NoValidationKey]

\* ---------------------------------------------------------------- json
JSONDecodeError == [kind |-> "err"]

\* the token sequence between "qs[" and "]" is a list of {question} objects
RECURSIVE IsObjectList(_)
IsObjectList(s) ==
    \/ s = <<>>
    \/ /\ Len(s) >= 3
       /\ s[1] = "{" /\ s[2] \in QuestionTokens \cup VerdictTokens /\ s[3] = "}"
       /\ IsObjectList(SubSeq(s, 4, Len(s)))

RECURSIVE ObjectListItems(_)
ObjectListItems(s) ==
    IF s = <<>> THEN <<>> ELSE <<s[2]>> \o ObjectListItems(SubSeq(s, 4, Len(s)))

\* the text without its whitespace tokens (whitespace between JSON tokens is
\* insignificant; whitespace inside a string is inside a body token)
RECURSIVE DropWS(_)
DropWS(s) ==
    IF s = <<>> THEN <<>>
    ELSE IF Head(s) \in WS THEN DropWS(Tail(s))
    ELSE <<Head(s)>> \o DropWS(Tail(s))

\* json.loads(text): the document is a number, an empty object, a flat object,
\* or an object with a "questions" list of flat objects; anything else is a
\* decode error
json_loads(text) ==
    LET t == DropWS(text)
        n == Len(t)
        inner == SubSeq(t, 2, n - 1)
        m == Len(inner)
    IN  IF t = <<"num">> THEN [kind |-> "num"]
        ELSE IF n < 2 \/ t[1] # "{" \/ t[n] # "}" THEN JSONDecodeError
        ELSE IF m = 0 THEN [kind |-> "object", shape |-> "empty"]
        ELSE IF m = 1 /\ inner[1] \in QuestionTokens \cup VerdictTokens
             THEN [kind |-> "object", shape |-> "flat", body |-> inner[1]]
        ELSE IF /\ m >= 2 /\ inner[1] = "qs[" /\ inner[m] = "]"
                /\ IsObjectList(SubSeq(inner, 2, m - 1))
             THEN [kind |-> "object", shape |-> "questions",
                   items |-> ObjectListItems(SubSeq(inner, 2, m - 1))]
        ELSE JSONDecodeError

\* json.dumps of a question set: the text of {"questions": [{..}, {..}]}
RenderQuestions(toks) ==
    <<"{", "qs[">> \o Concat([i \in 1..Len(toks) |-> <<"{", toks[i], "}">>])
                   \o <<"]", "}">>

\* ---------------------------------------------------------------- regex
\* re.search(r"({[\s\S]*})", s): leftmost "{", then greedily to the last "}".
\* [lo, hi] are the bounds of group 1, hi = 0 when nothing matches.
re_search(s) ==
    LET lo == FirstIndex(s, "{")
        hi == LastIndex(s, "}")
    IN  IF lo > 0 /\ hi > lo THEN [lo |-> lo, hi |-> hi] ELSE [lo |-> 0, hi |-> 0]

\* re.findall(r"({[\s\S]*})", s): the non-overlapping matches, left to right
RECURSIVE re_findall(_)
re_findall(s) ==
    LET m == re_search(s)
    IN  IF m.hi = 0 THEN <<>>
        ELSE <<SubSeq(s, m.lo, m.hi)>> \o re_findall(SubSeq(s, m.hi + 1, Len(s)))

\* raw_result.split("Final Answer:")[-1]
AfterLastMarker(s) == SubSeq(s, LastIndex(s, "FA") + 1, Len(s))

\* ---------------------------------------------------------------- schema
\* ValidationResult(**d): explanation is required, sources is a list of str
ValidationResultInit(d) ==
    IF d.has_explanation /\ \A i \in 1..Len(d.sources) : d.sources[i].type = "str"
    THEN [ok |-> TRUE,
          val |-> [kind |-> "ValidationResult", is_correct |-> d.is_correct,
                   explanation |-> d.explanation, sources |-> d.sources]]
    ELSE [ok |-> FALSE, val |-> NoneVal]

\* a check that rejects only the empty string
not_empty_lax(v) == v # <<>>

\* QuizQuestion.not_empty
not_empty(v) == strip(v) # <<>>

\* Field(pattern="^[a-d]$")
pattern_a_d(v) == Len(v) = 1 /\ v[1] \in {"a", "b", "c", "d"}

\* QuizQuestion.valid_answer
valid_answer(v) == v \in {<<"a">>, <<"b">>, <<"c">>, <<"d">>}

TextFields ==
    {"question", "option_a", "option_b", "option_c", "option_d", "explanation"}

\* QuizQuestion(**d)
QuizQuestionInit(d) ==
    LET v == IF d.validation.present
             THEN ValidationResultInit(RawVerdict(d.validation.verdict))
             ELSE [ok |-> TRUE, val |-> NoneVal]
    IN  IF /\ \A f \in TextFields : not_empty(d[f])
           /\ pattern_a_d(d.correct_answer)
           /\ valid_answer(d.correct_answer)
           /\ v.ok
        THEN [ok |-> TRUE,
              val |-> [question |-> strip(d.question),
                       option_a |-> strip(d.option_a),
                       option_b |-> strip(d.option_b),
                       option_c |-> strip(d.option_c),
                       option_d |-> strip(d.option_d),
                       correct_answer |-> d.correct_answer,
                       explanation |-> strip(d.explanation),
                       validation |-> v.val]]
        ELSE [ok |-> FALSE, val |-> NoneVal]

\* a validation that drops the questions violating the schema and keeps the
\* others
QuizOutput_model_validate_partial(data) ==
    IF data.kind = "object" /\ data.shape = "questions"
    THEN LET valid(t) == t \in QuestionTokens /\ QuizQuestionInit(RawQuestion(t)).ok
             kept == SelectSeq(data.items, valid)
         IN  [ok |-> TRUE,
              questions |-> [i \in 1..Len(kept) |->
                                QuizQuestionInit(RawQuestion(kept[i])).val]]
    ELSE [ok |-> FALSE, questions |-> <<>>]

\* QuizOutput.model_validate(data)
QuizOutput_model_validate(data) ==
    IF /\ data.kind = "object"
       /\ data.shape = "questions"
       /\ \A i \in 1..Len(data.items) :
             /\ data.items[i] \in QuestionTokens
             /\ QuizQuestionInit(RawQuestion(data.items[i])).ok
    THEN [ok |-> TRUE,
          questions |-> [i \in 1..Len(data.items) |->
                            QuizQuestionInit(RawQuestion(data.items[i])).val]]
    ELSE [ok |-> FALSE, questions |-> <<>>]

\* QuizQuestion.to_api_format: the keys of the API-shaped object
to_api_format(q) ==
    LET base == [question |-> q.question,
                 options |-> [a |-> q.option_a, b |-> q.option_b,
                              c |-> q.option_c, d |-> q.option_d],
                 correct_answer |-> q.correct_answer,
                 explanation |-> q.explanation]
    IN  IF q.validation # NoneVal
        THEN [has_validation |-> TRUE, body |-> base,
              validation |-> [is_correct |-> q.validation.is_correct,
                              explanation |-> q.validation.explanation,
                              sources |-> q.validation.sources]]
        ELSE [has_validation |-> FALSE, body |-> base]

\* ---------------------------------------------------------------- exceptions
Exc(type, msg) == [type |-> type, msg |-> msg]
NoExc == Exc("none", <<>>)

\* outcome of a try body: a value, or an exception and whether the local
\* raw_result / raw_content was bound when it was raised
Returned(v) == [kind |-> "ok", val |-> v, exc |-> NoExc, bound |-> TRUE]
Raised(e, bound) == [kind |-> "exc", val |-> NoneVal, exc |-> e, bound |-> bound]

\* ---------------------------------------------------------------- agent
\* agent.run(prompt): raises, returns something that is no text, or returns text
AgentRaises == {[kind |-> "raise", exc |-> Exc(t, <<"agent failed">>), text |-> <<>>] :
                   t \in {"JSONDecodeError", "RuntimeError"}}
AgentNonText == [kind |-> "nontext", exc |-> NoExc, text |-> <<>>]
AgentText(t) == [kind |-> "text", exc |-> NoExc, text |-> t]

AgentBefore == {<<>>, <<"w">>, <<"FA">>, <<"w", "FA", "sp">>,
                <<"FA", "{", "vFalse", "}", "w", "FA">>}
AgentAfter == {<<>>, <<"sp">>, <<"w">>, <<"w", "{", "w", "}">>}
AgentTexts ==
    {b \o <<"{", v, "}">> \o a : b \in AgentBefore, v \in VerdictTokens, a \in AgentAfter}
    \cup {<<>>, <<"w">>, <<"FA", "w">>, <<"FA", "num">>, <<"{", "w", "}">>,
          <<"{", "}">>, <<"w", "{", "vTrue">>}
AgentOutcomes == AgentRaises \cup {AgentNonText} \cup {AgentText(t) : t \in AgentTexts}

\* the agent outcomes met by the validate_question tasks of one generate_quiz
TaskAgentOutcomes ==
    AgentRaises \cup {AgentNonText}
    \cup {AgentText(t) : t \in {<<"{", "vTrue", "}">>, <<"FA", "{", "vFalse", "}">>,
                                 <<"w", "{", "vBadSrc", "}">>, <<"w">>,
                                 <<"{", "vNull", "}", "w", "{", "w", "}">>}}

\* ---------------------------------------------------------------- validator
ParseFailedText == <<"Could not determine if the answer is correct. The validation system failed to parse the results.">>

Unknown(explanation) ==
    [kind |-> "ValidationResult", is_correct |-> "None",
     explanation |-> explanation, sources |-> <<>>]

\* ValidationResult(**result_dict) for a parsed JSON value
VerdictOf(d, bound) ==
    IF d.kind # "object"
    THEN Raised(Exc("TypeError", <<"argument after ** must be a mapping">>), bound)
    ELSE IF /\ d.shape = "flat" /\ d.body \in VerdictTokens
            /\ ValidationResultInit(RawVerdict(d.body)).ok
    THEN Returned(ValidationResultInit(RawVerdict(d.body)).val)
    ELSE Raised(Exc("ValidationError", <<"validation error for ValidationResult">>), bound)

\* quiz_generator/validator.py, validate_answer: the try body
validate_answer_try(out) ==
    IF out.kind = "raise" THEN Raised(out.exc, FALSE)
    ELSE IF out.kind = "nontext"
    THEN Raised(Exc("TypeError", <<"argument of type 'NoneType' is not iterable">>), TRUE)
    ELSE LET raw_result == out.text
             json_match == re_search(raw_result)
             hasMarker == \E i \in 1..Len(raw_result) : raw_result[i] = "FA"
             final_answer ==
                 IF hasMarker THEN strip(AfterLastMarker(raw_result))
                 ELSE SubSeq(raw_result, json_match.lo, json_match.hi)
         IN  IF ~hasMarker /\ json_match.hi = 0
             THEN Raised(Exc("ValueError", <<"No structured response found">>), TRUE)
             ELSE IF json_loads(final_answer).kind = "err"
             THEN Raised(Exc("JSONDecodeError", <<"Expecting value">>), TRUE)
             ELSE VerdictOf(json_loads(final_answer), TRUE)

\* the handler of `except json.JSONDecodeError`: its log line reads raw_result
JSONDecodeHandler(r) ==
    IF r.bound THEN Returned(Unknown(ParseFailedText))
    ELSE Raised(Exc("UnboundLocalError", <<"local variable 'raw_result' referenced before assignment">>), FALSE)

\* quiz_generator/validator.py, validate_answer
validate_answer(out) ==
    LET r == validate_answer_try(out)
    IN  IF r.kind = "ok" THEN r
        ELSE IF r.exc.type = "JSONDecodeError" THEN JSONDecodeHandler(r)
        ELSE Returned(Unknown(<<"Could not validate the answer: ">> \o r.exc.msg))

\* the basic URL check of app/validator.py
IsUrlShaped(source) == source.head = "http" /\ source.len > 10

\* app/validator.py, validate_answer: the try body
app_validate_answer_try(out) ==
    IF out.kind = "raise" THEN Raised(out.exc, FALSE)
    ELSE IF out.kind = "nontext"
    THEN Raised(Exc("TypeError", <<"expected string or bytes-like object">>), TRUE)
    ELSE LET raw_result == out.text
             json_match == re_search(raw_result)
             result_dict == json_loads(SubSeq(raw_result, json_match.lo, json_match.hi))
             raw == IF result_dict.shape = "flat" /\ result_dict.body \in VerdictTokens
                    THEN RawVerdict(result_dict.body)
                    ELSE [has_explanation |-> FALSE, is_correct |-> "None",
                          explanation |-> <<>>, sources |-> <<>>]
             cleaned == [raw EXCEPT !.sources = SelectSeq(raw.sources, IsUrlShaped)]
         IN  IF json_match.hi = 0
             THEN Raised(Exc("ValueError", <<"No JSON found in response">>), TRUE)
             ELSE IF result_dict.kind = "err"
             THEN Raised(Exc("JSONDecodeError", <<"Expecting value">>), TRUE)
             ELSE IF \E i \in 1..Len(raw.sources) : raw.sources[i].type # "str"
             THEN Raised(Exc("AttributeError", <<"'int' object has no attribute 'startswith'">>), TRUE)
             ELSE IF ValidationResultInit(cleaned).ok
             THEN Returned(ValidationResultInit(cleaned).val)
             ELSE Raised(Exc("ValidationError", <<"validation error for ValidationResult">>), TRUE)

\* app/validator.py, validate_answer
app_validate_answer(out) ==
    LET r == app_validate_answer_try(out)
    IN  IF r.kind = "ok" THEN r
        ELSE Returned(Unknown(<<"Validation failed: ">> \o r.exc.msg))

\* a claim that always names option a as the correct option
PromptOfFirstOption(q) ==
    [question_text |-> q.question, correct_answer |-> q.option_a,
     explanation |-> q.explanation]

\* validate_question: the arguments it hands to validate_answer, which become
\* the claim inside the prompt of agent.run
PromptOf(q) ==
    [question_text |-> q.question,
     correct_answer |-> CASE q.correct_answer = <<"a">> -> q.option_a
                          [] q.correct_answer = <<"b">> -> q.option_b
                          [] q.correct_answer = <<"c">> -> q.option_c
                          [] q.correct_answer = <<"d">> -> q.option_d,
     explanation |-> q.explanation]

\* ---------------------------------------------------------------- LLM
\* client.chat.completions.create(...): raises, returns no choice, returns a
\* message whose content is None, or returns a message with text content
ProseTokens == {"w", "{", "}"}
Prose == SeqsUpTo(ProseTokens, MaxProse)
\* the question objects that fill the lists of every length
ListTokens == {"qA", "qB", "qUpper", "qInj"}
QuestionLists == SeqsUpTo(ListTokens, MaxQuestions)

\* the JSON part of a response: a question set, a lone question object, a
\* truncated question set, a set with a blank option or with a newline after
\* the answer letter, or nothing
Cores ==
    {RenderQuestions(l) : l \in QuestionLists}
    \cup {<<>>, <<"{", "qA", "}">>, <<"{", "qs[", "{", "qA", "}">>,
          RenderQuestions(<<"qBlank">>), RenderQuestions(<<"qA", "qNl">>)}

\* a brace-delimited fragment that is no JSON, before a question set
Fragment == <<"{", "w", "}">>
FragmentTexts ==
    {Fragment \o sep \o RenderQuestions(l) :
        sep \in {<<"w">>, <<"nl">>}, l \in {<<"qA">>, <<"qB">>}}

\* the JSON part inside prose, or alone with whitespace around it, or after a
\* fragment
LLMTexts ==
    {pre \o core \o post : pre \in Prose, core \in Cores, post \in Prose}
    \cup {<<"nl", "sp">> \o core \o <<"nl">> : core \in Cores}
    \cup FragmentTexts

LLMRaise == [kind |-> "raise", exc |-> Exc("APIError", <<"API Error">>), text |-> <<>>]
LLMNoChoice == [kind |-> "nochoice", exc |-> NoExc, text |-> <<>>]
LLMNoneContent == [kind |-> "none", exc |-> NoExc, text |-> <<>>]
LLMText(t) == [kind |-> "text", exc |-> NoExc, text |-> t]
LLMOutcomes ==
    {LLMRaise, LLMNoChoice, LLMNoneContent} \cup {LLMText(t) : t \in LLMTexts}

\* the num_questions arguments of direct calls
CountInputs == {0, 3, 11}

\* ---------------------------------------------------------------- generator
\* the local raw_content: unbound, None, or text
Unbound == [state |-> "unbound", text |-> <<>>]
NoneContent == [state |-> "None", text |-> <<>>]
StrContent(t) == [state |-> "str", text |-> t]

ErrorPrefix == "Error generating quiz question: "

\* the keyword arguments of the last-resort question
SentinelArgs(e) ==
    [question |-> <<ErrorPrefix>> \o e.msg,
     option_a |-> <<"Contact administrator">>,
     option_b |-> <<"Try again later">>,
     option_c |-> <<"Provide a different learning objective">>,
     option_d |-> <<"Check API configuration">>,
     correct_answer |-> <<"c">>,
     explanation |-> <<"Failed to generate valid quiz data due to an error in processing the request.">>,
     validation |-> NoValidationKey]

\* a last resort that raises the caught exception again
SentinelReraise(e) == Raised(e, TRUE)

\* the last resort of generate_quiz: a list holding the dummy question
Sentinel(e) ==
    IF QuizQuestionInit(SentinelArgs(e)).ok
    THEN Returned(<<QuizQuestionInit(SentinelArgs(e)).val>>)
    ELSE Raised(Exc("ValidationError", <<"validation error for QuizQuestion">>), TRUE)

\* json.loads and QuizOutput.model_validate of one candidate both succeed
CandidateOk(c) ==
    json_loads(c).kind # "err" /\ QuizOutput_model_validate(json_loads(c)).ok

\* the inner try of the handler: the matches of the pattern in raw_content,
\* or a TypeError when raw_content is None
FallbackMatches(raw_content) ==
    IF raw_content.state = "str" THEN Returned(re_findall(raw_content.text))
    ELSE Raised(Exc("TypeError", <<"expected string or bytes-like object">>), TRUE)

\* a handler without the outer `except: pass`
FallbackNoCatch(r) == r

\* `except: pass` around the fallback: whatever it raises is dropped
FallbackCatchAll(r) == IF r.kind = "exc" THEN Returned(<<>>) ELSE r

\* a handler that gives up with an empty list instead of the dummy question
generate_quiz_except_empty(raw_content, e) ==
    LET fb == IF raw_content.state = "unbound" THEN Returned(<<>>)
              ELSE FallbackCatchAll(FallbackMatches(raw_content))
        good == {i \in 1..Len(fb.val) : CandidateOk(fb.val[i])}
        first == CHOOSE i \in good : \A j \in good : i <= j
    IN  IF good # {}
        THEN Returned(QuizOutput_model_validate(json_loads(fb.val[first])).questions)
        ELSE Returned(<<>>)

\* generate_quiz, the handler of `except Exception as e`: the first match that
\* loads and validates, else the dummy question; what the fallback raises
\* past its own handlers leaves generate_quiz
generate_quiz_except(raw_content, e) ==
    LET fb == IF raw_content.state = "unbound" THEN Returned(<<>>)
              ELSE FallbackCatchAll(FallbackMatches(raw_content))
        matches == fb.val
        good == {i \in 1..Len(matches) : CandidateOk(matches[i])}
        first == CHOOSE i \in good : \A j \in good : i <= j
    IN  IF fb.kind = "exc" THEN fb
        ELSE IF good # {}
        THEN Returned(QuizOutput_model_validate(json_loads(matches[first])).questions)
        ELSE Sentinel(e)

\* a try body that keeps only the first generated question
generate_quiz_try_first(o) ==
    IF o.kind = "text" /\ json_loads(o.text).kind # "err"
       /\ QuizOutput_model_validate(json_loads(o.text)).ok
    THEN LET qs == QuizOutput_model_validate(json_loads(o.text)).questions
         IN  Returned(IF qs = <<>> THEN qs ELSE <<qs[1]>>)
    ELSE Raised(Exc("Exception", <<"failed">>), o.kind \in {"text", "none"})

\* generate_quiz, the try body up to the `if validate`: the exception, or the
\* generated questions
generate_quiz_try(o) ==
    CASE o.kind = "raise" -> Raised(o.exc, FALSE)
      [] o.kind = "nochoice" ->
           Raised(Exc("IndexError", <<"list index out of range">>), FALSE)
      [] o.kind = "none" ->
           Raised(Exc("TypeError", <<"'NoneType' object is not subscriptable">>), TRUE)
      [] o.kind = "text" ->
           IF json_loads(o.text).kind = "err"
           THEN Raised(Exc("JSONDecodeError", <<"Expecting value">>), TRUE)
           ELSE IF ~QuizOutput_model_validate(json_loads(o.text)).ok
           THEN Raised(Exc("ValidationError", <<"validation error for QuizOutput">>), TRUE)
           ELSE Returned(QuizOutput_model_validate(json_loads(o.text)).questions)

\* ---------------------------------------------------------------- construction
\* the texts given to a text field, and to correct_answer, when a
\* QuizQuestion is constructed directly
FieldTexts ==
    {<<"x">>, <<>>, <<"sp">>, <<"nl", "sp">>, <<"x", "nl">>,
     <<"sp", "x", "sp", "y", "nl">>}

AnswerTexts ==
    {<<"a">>, <<"b">>, <<"c">>, <<"d">>, <<"A">>, <<>>, <<"sp">>, <<"e">>,
     <<"a", "nl">>, <<"a", "sp">>, <<"a", "b">>}

\* the keyword arguments of direct constructions: one text field and the
\* answer vary, the other fields are those of a valid question
QuestionInputs ==
    {[RawQuestion("qA") EXCEPT ![f] = t, !.correct_answer = ca] :
        f \in TextFields, t \in FieldTexts, ca \in AnswerTexts}
    \cup {RawQuestion(tok) : tok \in QuestionTokens}

\* ---------------------------------------------------------------- endpoint
DEFAULT_NUM_QUESTIONS == 3
MAX_NUM_QUESTIONS == 10

Max(a, b) == IF a >= b THEN a ELSE b
Min(a, b) == IF a <= b THEN a ELSE b

\* a value of the request body: the key is absent, an integer, or a string
Absent == [kind |-> "absent", val |-> 0]
IntValue(n) == [kind |-> "int", val |-> n]
StrValue == [kind |-> "str", val |-> 0]
NumInputs == {Absent, StrValue} \cup {IntValue(n) : n \in {0, 5, 15}}

\* a POST /generate-quiz: a body that is no JSON, the JSON value null, or a
\* JSON object
Request(b, lo, n, v) ==
    [body |-> b, learning_objective |-> lo, num_questions |-> n, validate |-> v]
NoRequest == Request("none", "absent", Absent, "absent")
Requests ==
    {Request(b, "absent", Absent, "absent") : b \in {"nojson", "null"}}
    \cup {Request("object", lo, n, v) :
             lo \in {"absent", "empty", "text"}, n \in NumInputs,
             v \in {"absent", "true"}}

Response(status, key, error, questions) ==
    [status |-> status, key |-> key, error |-> error, questions |-> questions]
NoResponse == Response(0, "none", <<>>, <<>>)

\* the handler of `except Exception as e` of the endpoint
EndpointExcept(msg) ==
    Response(500, "error", <<"Failed to generate quiz: ">> \o msg, <<>>)

\* a clamp that passes the requested count on unchanged
ClampNone(n) == n

\* max(1, min(MAX_NUM_QUESTIONS, num_questions))
ClampCount(n) == Max(1, Min(MAX_NUM_QUESTIONS, n))

\* an entry that clamps the count before it looks at the objective
EndpointEntryClampFirst(req) ==
    LET at_once(r) == [respond |-> TRUE, response |-> r,
                       num_questions |-> 0, validate |-> FALSE]
    IN  IF req.body = "nojson"
        THEN at_once(EndpointExcept(<<"get_json failed">>))
        ELSE IF req.body = "null"
        THEN at_once(EndpointExcept(<<"'NoneType' object has no attribute 'get'">>))
        ELSE IF req.num_questions.kind = "str"
        THEN at_once(EndpointExcept(<<"'<' not supported between instances of 'str' and 'int'">>))
        ELSE IF req.learning_objective # "text"
        THEN at_once(Response(400, "error", <<"Learning objective is required">>, <<>>))
        ELSE [respond |-> FALSE, response |-> NoResponse,
              num_questions |->
                  ClampCount(IF req.num_questions.kind = "absent"
                             THEN DEFAULT_NUM_QUESTIONS
                             ELSE req.num_questions.val),
              validate |-> req.validate = "true"]

\* generate_quiz_endpoint up to the call of generate_quiz: the response it
\* gives at once, or the arguments of the call
EndpointEntry(req) ==
    LET at_once(r) == [respond |-> TRUE, response |-> r,
                       num_questions |-> 0, validate |-> FALSE]
    IN  IF req.body = "nojson"
        THEN at_once(EndpointExcept(<<"get_json failed">>))
        ELSE IF req.body = "null"
        THEN at_once(EndpointExcept(<<"'NoneType' object has no attribute 'get'">>))
        ELSE IF req.learning_objective # "text"
        THEN at_once(Response(400, "error", <<"Learning objective is required">>, <<>>))
        ELSE IF req.num_questions.kind = "str"
        THEN at_once(EndpointExcept(<<"'<' not supported between instances of 'str' and 'int'">>))
        ELSE [respond |-> FALSE, response |-> NoResponse,
              num_questions |->
                  ClampCount(IF req.num_questions.kind = "absent"
                             THEN DEFAULT_NUM_QUESTIONS
                             ELSE req.num_questions.val),
              validate |-> req.validate = "true"]

\* generate_quiz_endpoint after generate_quiz: the questions in API format,
\* or the 500 of the handler when generate_quiz raised
EndpointReturn(r) ==
    IF r.kind = "exc" THEN EndpointExcept(r.exc.msg)
    ELSE Response(200, "questions", <<>>,
                  [i \in 1..Len(r.val) |-> to_api_format(r.val[i])])

\* ---------------------------------------------------------------- gradio_ui
\* the generate_quiz_stream calls that can be running at one time
Handlers == {1, 2}

\* quiz_state["current_quiz"]: None, or the quiz data of the API response.
\* gen names the generate_quiz_stream call that stored it, questions is the
\* length of its question list
NoQuiz == [gen |-> 0, questions |-> 0]
Quiz(gen, n) == [gen |-> gen, questions |-> n]

\* quiz_state["student_answers"] is a dict: a set of <<index, gen>> pairs
\* with one pair per index, gen naming the quiz the answer was given to
Keys(answers) == {p[1] : p \in answers}
SetItem(answers, idx, gen) == {p \in answers : p[1] # idx} \cup {<<idx, gen>>}

NoQuizState == [current_quiz |-> NoQuiz, student_answers |-> {}, quiz_id |-> 0]

\* a generate_quiz_stream call: not running, or between two of its steps
NotRunning == [at |-> "idle", gen |-> 0]
Running(at, gen) == [at |-> at, gen |-> gen]

\* a record_student_answer call: not running, or past its checks and before
\* its assignment
NotRecording == [at |-> "idle", idx |-> 0, gen |-> 0]

\* what the form holds when the generate button is pressed
UiInputs == {"blank objective", "count out of range", "count no integer", "ok"}

\* what requests.post and response.json() give: an exception, a body with an
\* error key, or a body whose question list has n entries
ApiReplies == {[kind |-> k, questions |-> 0] : k \in {"exception", "error"}}
              \cup {[kind |-> "quiz", questions |-> n] : n \in 0..MaxQuestions}

\* the question numbers a student can type
QuestionNums == 0..(MaxQuestions + 1)

NoSubmit == [kind |-> "none", total |-> 0, stale |-> FALSE]

\* submit_student_quiz on the state qs: the answers counted are those whose
\* index is a question index of current_quiz
submit_student_quiz(qs) ==
    IF qs.current_quiz = NoQuiz
    THEN [kind |-> "no active quiz", total |-> 0, stale |-> FALSE]
    ELSE IF qs.current_quiz.questions = 0
    THEN [kind |-> "ZeroDivisionError", total |-> 0, stale |-> FALSE]
    ELSE [kind |-> "scored", total |-> qs.current_quiz.questions,
          stale |-> \E p \in qs.student_answers :
                       p[1] < qs.current_quiz.questions /\ p[2] # qs.current_quiz.gen]

\* ---------------------------------------------------------------- state
VARIABLES
    pc,                  \* where the caller is
    num_questions,       \* generate_quiz argument
    validate,            \* generate_quiz argument
    user_prompt,         \* the count written into the user prompt
    completion,          \* what the LLM call did
    raw_content,         \* generate_quiz local
    generated_questions, \* generate_quiz local; validate_question writes into it
    vq_input,            \* the parsed questions, as they are before validation
    started,             \* validate_question tasks whose agent run has begun
    next_task,           \* index of the next validate_question task to finish
    task_prompt,         \* the claim each started task hands to agent.run
    task_out,            \* what agent.run did in each finished task
    validation_writes,   \* assignments to question.validation, per question
    task_exc,            \* first exception a validate_question task raised
    vq_result,           \* what validate_quiz_questions did
    e,                   \* exception caught by generate_quiz
    gq_result,           \* what generate_quiz did for its caller
    llm_calls,           \* calls of client.chat.completions.create
    agent_runs,          \* calls of agent.run
    agent_stub,          \* outcome of the stub agent of direct validate_answer calls
    va_result,           \* what quiz_generator.validator.validate_answer did
    app_va_result,       \* what app.validator.validate_answer did
    va_second,           \* what a second validate_answer call with that stub did
    qq_input,            \* keyword arguments of a direct QuizQuestion(...)
    qq_result,           \* what that construction did
    request,             \* the POST /generate-quiz being served
    response,            \* the response given to it
    quiz_state,          \* gradio_ui: the module-level quiz_state
    ui_run,              \* gradio_ui: the running generate_quiz_stream calls
    generations,         \* gradio_ui: generate_quiz_stream calls so far
    ui_record,           \* gradio_ui: the running record_student_answer call
    submit_result        \* gradio_ui: what the last submit_student_quiz did

vars == <<pc, num_questions, validate, user_prompt, completion, raw_content,
          generated_questions, vq_input, started, next_task, task_prompt, task_out,
          validation_writes, task_exc, vq_result, e, gq_result, llm_calls,
          agent_runs, agent_stub, va_result, app_va_result, va_second, qq_input,
          qq_result, request, response, quiz_state, ui_run, generations,
          ui_record, submit_result>>

gq_vars == <<num_questions, validate, user_prompt, completion, raw_content,
             generated_questions, vq_input, started, next_task, task_prompt, task_out,
             validation_writes, task_exc, vq_result, e, gq_result, llm_calls>>

direct_vars == <<agent_stub, va_result, app_va_result, va_second, qq_input,
                 qq_result>>

http_vars == <<request, response>>

ui_vars == <<quiz_state, ui_run, generations, ui_record, submit_result>>

other_vars == <<pc, gq_vars, agent_runs, direct_vars, http_vars>>

Pending == [kind |-> "pending", val |-> NoneVal, exc |-> NoExc, bound |-> FALSE]
NoCompletion == [kind |-> "pending", exc |-> NoExc, text |-> <<>>]
NoConstruction == [ok |-> FALSE, val |-> [kind |-> "pending"]]

Init ==
    /\ pc = "idle"
    /\ num_questions = 3
    /\ validate = FALSE
    /\ user_prompt = 0
    /\ completion = NoCompletion
    /\ raw_content = Unbound
    /\ generated_questions = <<>>
    /\ vq_input = <<>>
    /\ started = 0
    /\ next_task = 1
    /\ task_prompt = <<>>
    /\ task_out = <<>>
    /\ validation_writes = <<>>
    /\ task_exc = NoExc
    /\ vq_result = Pending
    /\ e = NoExc
    /\ gq_result = Pending
    /\ llm_calls = 0
    /\ agent_runs = 0
    /\ agent_stub = NoCompletion
    /\ va_result = Pending
    /\ app_va_result = Pending
    /\ va_second = Pending
    /\ qq_input = RawQuestion("qA")
    /\ qq_result = NoConstruction
    /\ request = NoRequest
    /\ response = NoResponse
    /\ quiz_state = NoQuizState
    /\ ui_run = [g \in Handlers |-> NotRunning]
    /\ generations = 0
    /\ ui_record = NotRecording
    /\ submit_result = NoSubmit

\* generate_quiz(learning_objective, num_questions, validate): entry, the
\* user prompt is built
Call ==
    /\ pc = "idle"
    /\ pc' = "create"
    /\ \E n \in CountInputs, v \in BOOLEAN :
          /\ num_questions' = n
          /\ validate' = v
          /\ user_prompt' = n
    /\ UNCHANGED <<completion, raw_content, generated_questions, vq_input, started,
                   next_task, task_prompt, task_out, validation_writes,
                   task_exc, vq_result, e, gq_result, llm_calls, agent_runs,
                   direct_vars, http_vars, ui_vars>>

\* the try body: the LLM call, json.loads, model_validate, and the return of
\* the unvalidated questions
CreateAndParse ==
    /\ pc = "create"
    /\ \E o \in LLMOutcomes :
        LET r == generate_quiz_try(o)
        IN
        /\ llm_calls' = llm_calls + 1
        /\ completion' = o
        /\ raw_content' = IF o.kind = "text" THEN StrContent(o.text)
                          ELSE IF o.kind = "none" THEN NoneContent
                          ELSE Unbound
        /\ IF r.kind = "exc"
           THEN /\ e' = r.exc
                /\ pc' = "except"
                /\ UNCHANGED <<generated_questions, vq_input, validation_writes, gq_result>>
           ELSE /\ generated_questions' = r.val
                /\ vq_input' = r.val
                /\ validation_writes' = [i \in 1..Len(r.val) |-> 0]
                /\ e' = e
                /\ IF validate
                   THEN pc' = "gather" /\ gq_result' = gq_result
                   ELSE pc' = "done" /\ gq_result' = Returned(r.val)
        /\ UNCHANGED <<num_questions, validate, user_prompt, started, next_task,
                       task_prompt, task_out, task_exc, vq_result, agent_runs,
                       direct_vars, http_vars, ui_vars>>

\* a validate_question task of asyncio.gather gets its first turn on the event
\* loop and calls agent.run.  Tasks get their turn in list order, and a task
\* has no await: the loop gives no other task a turn until it has finished
StartTask ==
    /\ pc = "gather"
    /\ started < Len(generated_questions)
    /\ started = next_task - 1
    /\ started' = started + 1
    /\ task_prompt' = Append(task_prompt, PromptOf(generated_questions[started + 1]))
    /\ agent_runs' = agent_runs + 1
    /\ UNCHANGED <<pc, num_questions, validate, user_prompt, completion,
                   raw_content, generated_questions, vq_input, next_task, task_out,
                   validation_writes, task_exc, vq_result, e, gq_result,
                   llm_calls, direct_vars, http_vars, ui_vars>>

\* agent.run of the running task ends, validate_answer handles what it did,
\* and validate_question writes the result into its question or raises
FinishTask ==
    /\ pc = "gather"
    /\ started = next_task
    /\ \E out \in TaskAgentOutcomes :
        LET r == validate_answer(out)
        IN
        /\ task_out' = Append(task_out, out)
        /\ IF r.kind = "ok"
           THEN /\ generated_questions' =
                      [generated_questions EXCEPT ![next_task].validation = r.val]
                /\ validation_writes' = [validation_writes EXCEPT ![next_task] = @ + 1]
                /\ task_exc' = task_exc
           ELSE /\ generated_questions' = generated_questions
                /\ validation_writes' = validation_writes
                /\ task_exc' = IF task_exc = NoExc THEN r.exc ELSE task_exc
    /\ next_task' = next_task + 1
    /\ UNCHANGED <<pc, num_questions, validate, user_prompt, completion,
                   raw_content, vq_input, started, task_prompt, vq_result, e, gq_result,
                   llm_calls, agent_runs, direct_vars, http_vars, ui_vars>>

\* a gather that hands its result over once one task has finished
GatherReturnEarly ==
    /\ pc = "gather"
    /\ started = next_task - 1
    /\ next_task > Min(1, Len(generated_questions))
    /\ IF task_exc = NoExc
       THEN /\ vq_result' = Returned(generated_questions)
            /\ gq_result' = Returned(generated_questions)
            /\ pc' = "done"
            /\ e' = e
       ELSE /\ vq_result' = Raised(task_exc, TRUE)
            /\ e' = task_exc
            /\ pc' = "except"
            /\ gq_result' = gq_result
    /\ UNCHANGED <<num_questions, validate, user_prompt, completion, raw_content,
                   generated_questions, vq_input, started, next_task, task_prompt,
                   task_out, validation_writes, task_exc, llm_calls, agent_runs,
                   direct_vars, http_vars, ui_vars>>

\* validate_quiz_questions resumes after the gather and run_until_complete
\* ends: the gathered questions are returned, or the first exception of a task
\* is raised, which generate_quiz catches
GatherReturn ==
    /\ pc = "gather"
    /\ started = next_task - 1
    /\ next_task > Len(generated_questions)
    /\ IF task_exc = NoExc
       THEN /\ vq_result' = Returned(generated_questions)
            /\ gq_result' = Returned(generated_questions)
            /\ pc' = "done"
            /\ e' = e
       ELSE /\ vq_result' = Raised(task_exc, TRUE)
            /\ e' = task_exc
            /\ pc' = "except"
            /\ gq_result' = gq_result
    /\ UNCHANGED <<num_questions, validate, user_prompt, completion, raw_content,
                   generated_questions, vq_input, started, next_task, task_prompt,
                   task_out, validation_writes, task_exc, llm_calls, agent_runs,
                   direct_vars, http_vars, ui_vars>>

\* a handler that calls the LLM once more before it falls back
ExceptHandlerRetry ==
    /\ pc = "except"
    /\ IF llm_calls < 2
       THEN pc' = "create" /\ gq_result' = gq_result
       ELSE pc' = "done" /\ gq_result' = generate_quiz_except(raw_content, e)
    /\ UNCHANGED <<num_questions, validate, user_prompt, completion, raw_content,
                   generated_questions, vq_input, started, next_task, task_prompt,
                   task_out, validation_writes, task_exc, vq_result, e,
                   llm_calls, agent_runs, direct_vars, http_vars, ui_vars>>

\* the handler of generate_quiz: the fallback extraction, else the dummy
ExceptHandler ==
    /\ pc = "except"
    /\ gq_result' = generate_quiz_except(raw_content, e)
    /\ pc' = "done"
    /\ UNCHANGED <<num_questions, validate, user_prompt, completion, raw_content,
                   generated_questions, vq_input, started, next_task, task_prompt,
                   task_out, validation_writes, task_exc, vq_result, e,
                   llm_calls, agent_runs, direct_vars, http_vars, ui_vars>>

\* a direct call of quiz_generator.validator.validate_answer with a stub agent
ValidateAnswerCall ==
    /\ pc \in {"idle", "direct"}
    /\ va_result = Pending
    /\ pc' = "direct"
    /\ \E out \in IF pc = "direct" THEN {agent_stub} ELSE AgentOutcomes :
          /\ agent_stub' = out
          /\ va_result' = validate_answer(out)
    /\ agent_runs' = agent_runs + 1
    /\ UNCHANGED <<gq_vars, app_va_result, va_second, qq_input, qq_result,
                   http_vars, ui_vars>>

\* a direct call of app.validator.validate_answer with a stub agent
AppValidateAnswerCall ==
    /\ pc \in {"idle", "direct"}
    /\ app_va_result = Pending
    /\ pc' = "direct"
    /\ \E out \in IF pc = "direct" THEN {agent_stub} ELSE AgentOutcomes :
          /\ agent_stub' = out
          /\ app_va_result' = app_validate_answer(out)
    /\ agent_runs' = agent_runs + 1
    /\ UNCHANGED <<gq_vars, va_result, va_second, qq_input, qq_result,
                   http_vars, ui_vars>>

\* quiz_generator.validator.validate_answer is called again with the same
\* arguments; the stub agent does again what it did for that prompt
ValidateAnswerAgain ==
    /\ pc = "direct"
    /\ va_result # Pending
    /\ va_second = Pending
    /\ va_second' = validate_answer(agent_stub)
    /\ agent_runs' = agent_runs + 1
    /\ UNCHANGED <<pc, gq_vars, agent_stub, va_result, app_va_result, qq_input,
                   qq_result, http_vars, ui_vars>>

\* a direct QuizQuestion(**d)
ConstructQuestion ==
    /\ pc = "idle"
    /\ pc' = "built"
    /\ \E d \in QuestionInputs :
          /\ qq_input' = d
          /\ qq_result' = QuizQuestionInit(d)
    /\ UNCHANGED <<gq_vars, agent_runs, agent_stub, va_result, app_va_result,
                   va_second, http_vars, ui_vars>>

\* POST /generate-quiz arrives: the endpoint answers at once, or calls
\* generate_quiz with the clamped count
Post ==
    /\ pc = "idle"
    /\ \E req \in Requests :
        LET entry == EndpointEntry(req)
        IN
        /\ request' = req
        /\ IF entry.respond
           THEN /\ pc' = "responded"
                /\ response' = entry.response
                /\ UNCHANGED <<num_questions, validate, user_prompt>>
           ELSE /\ pc' = "create"
                /\ response' = response
                /\ num_questions' = entry.num_questions
                /\ validate' = entry.validate
                /\ user_prompt' = entry.num_questions
    /\ UNCHANGED <<completion, raw_content, generated_questions, vq_input, started,
                   next_task, task_prompt, task_out, validation_writes,
                   task_exc, vq_result, e, gq_result, llm_calls, agent_runs,
                   direct_vars, ui_vars>>

\* generate_quiz has ended: the endpoint builds its response
Respond ==
    /\ pc = "done"
    /\ request # NoRequest
    /\ pc' = "responded"
    /\ response' = EndpointReturn(gq_result)
    /\ UNCHANGED <<gq_vars, agent_runs, direct_vars, request, ui_vars>>

\* generate_quiz_stream starts: quiz_state is reset and the first message is
\* yielded
UiReset ==
    /\ generations < MaxGenerations
    /\ \E g \in Handlers :
          /\ ui_run[g].at = "idle"
          /\ ui_run' = [ui_run EXCEPT ![g] = Running("thinking", generations + 1)]
    /\ generations' = generations + 1
    /\ quiz_state' = [current_quiz |-> NoQuiz, student_answers |-> {},
                      quiz_id |-> generations + 1]
    /\ UNCHANGED <<other_vars, ui_record, submit_result>>

\* generate_quiz_stream checks its inputs: it ends with an error message, or
\* sends the request to the API
UiPost ==
    /\ \E g \in Handlers, input \in UiInputs :
          /\ ui_run[g].at = "thinking"
          /\ ui_run' = [ui_run EXCEPT ![g] =
                           IF input = "ok" THEN Running("posted", ui_run[g].gen)
                           ELSE NotRunning]
    /\ UNCHANGED <<other_vars, quiz_state, generations, ui_record, submit_result>>

\* the API has answered: generate_quiz_stream stores a quiz that has
\* questions as current_quiz, and ends
UiStore ==
    /\ \E g \in Handlers, reply \in ApiReplies :
          /\ ui_run[g].at = "posted"
          /\ ui_run' = [ui_run EXCEPT ![g] = NotRunning]
          /\ quiz_state' =
                 IF reply.kind = "quiz" /\ reply.questions > 0
                 THEN [quiz_state EXCEPT
                          !.current_quiz = Quiz(ui_run[g].gen, reply.questions)]
                 ELSE quiz_state
    /\ UNCHANGED <<other_vars, generations, ui_record, submit_result>>

\* record_student_answer up to its assignment: the checks of current_quiz and
\* of the question number
RecordCheck ==
    /\ ui_record.at = "idle"
    /\ \E question_num \in QuestionNums :
        LET idx == question_num - 1
        IN  ui_record' =
                IF /\ quiz_state.current_quiz # NoQuiz
                   /\ ~(idx < 0 \/ idx >= quiz_state.current_quiz.questions)
                THEN [at |-> "checked", idx |-> idx, gen |-> quiz_state.current_quiz.gen]
                ELSE NotRecording
    /\ UNCHANGED <<other_vars, quiz_state, ui_run, generations, submit_result>>

\* record_student_answer: quiz_state["student_answers"][idx] = answer.lower()
RecordWrite ==
    /\ ui_record.at = "checked"
    /\ quiz_state' = [quiz_state EXCEPT
                         !.student_answers = SetItem(@, ui_record.idx, ui_record.gen)]
    /\ ui_record' = NotRecording
    /\ UNCHANGED <<other_vars, ui_run, generations, submit_result>>

\* submit_student_quiz
Submit ==
    /\ submit_result' = submit_student_quiz(quiz_state)
    /\ UNCHANGED <<other_vars, quiz_state, ui_run, generations, ui_record>>

\* direct calls of generate_quiz, of the two validate_answer and of QuizQuestion
Next ==
    \/ Call
    \/ CreateAndParse
    \/ StartTask
    \/ FinishTask
    \/ GatherReturn
    \/ ExceptHandler
    \/ ValidateAnswerCall
    \/ AppValidateAnswerCall
    \/ ValidateAnswerAgain
    \/ ConstructQuestion

Spec == Init /\ [][Next]_vars

\* requests served by the endpoint
NextHttp ==
    \/ Post
    \/ CreateAndParse
    \/ StartTask
    \/ FinishTask
    \/ GatherReturn
    \/ ExceptHandler
    \/ Respond

SpecHttp == Init /\ [][NextHttp]_vars

\* the callbacks of the demo UI, in any interleaving
NextUi ==
    \/ UiReset
    \/ UiPost
    \/ UiStore
    \/ RecordCheck
    \/ RecordWrite
    \/ Submit

SpecUi == Init /\ [][NextUi]_vars

TypeOK ==
    /\ pc \in {"idle", "create", "gather", "except", "done", "direct", "built",
               "responded"}
    /\ gq_result.kind \in {"pending", "ok", "exc"}
    /\ started \in {next_task - 1, next_task}

\* ---------------------------------------------------------------- claims
Done == pc = "done"
ReturnedList == Done /\ gq_result.kind = "ok"

\* the fields of a QuizQuestion satisfy its schema
SatisfiesSchema(q) ==
    /\ \A f \in TextFields :
          /\ q[f] # <<>>
          /\ q[f][1] \notin WS
          /\ q[f][Len(q[f])] \notin WS
    /\ q.correct_answer \in {<<"a">>, <<"b">>, <<"c">>, <<"d">>}

\* out is text with the whitespace at its two ends removed
IsTrimOf(out, text) ==
    /\ out # <<>> /\ out[1] \notin WS /\ out[Len(out)] \notin WS
    /\ \E i \in 1..Len(text) :
          /\ i + Len(out) - 1 <= Len(text)
          /\ out = SubSeq(text, i, i + Len(out) - 1)
          /\ \A k \in 1..Len(text) :
                (k < i \/ k > i + Len(out) - 1) => text[k] \in WS

\* the JSON object of a question satisfies the QuizQuestion schema
RawSatisfiesSchema(d) ==
    /\ \A f \in TextFields : \E k \in 1..Len(d[f]) : d[f][k] \notin WS
    /\ d.correct_answer \in {<<"a">>, <<"b">>, <<"c">>, <<"d">>}

ValidLists ==
    {l \in QuestionLists : \A i \in 1..Len(l) : RawSatisfiesSchema(RawQuestion(l[i]))}

\* each list of schema-valid questions with its JSON text
RenderedValidLists == {[list |-> l, text |-> RenderQuestions(l)] : l \in ValidLists}

\* q is the question built from the JSON object d
BuiltFrom(q, d) ==
    /\ \A f \in TextFields : IsTrimOf(q[f], d[f])
    /\ q.correct_answer = d.correct_answer

\* qs are the questions of the rendered list l, in order
QuestionsOf(qs, l) ==
    /\ Len(qs) = Len(l)
    /\ \A i \in 1..Len(l) : BuiltFrom(qs[i], RawQuestion(l[i]))

\* the list holding only the dummy question
IsSentinel(qs) ==
    /\ Len(qs) = 1
    /\ \E k \in 1..Len(qs[1].question) : qs[1].question[k] = ErrorPrefix
    /\ qs[1].correct_answer = <<"c">>
    /\ qs[1].option_a = <<"Contact administrator">>
    /\ qs[1].option_b = <<"Try again later">>
    /\ qs[1].option_c = <<"Provide a different learning objective">>
    /\ qs[1].option_d = <<"Check API configuration">>

\* no substring of the text loads as JSON and validates as a question set
\* (a substring that is a JSON object runs from a "{" to a "}", with possibly
\* whitespace around it, so only those substrings are enumerated)
NoSubstringParses(t) ==
    \A i \in {k \in 1..Len(t) : t[k] = "{"} :
        \A j \in {k \in i..Len(t) : t[k] = "}"} :
            LET c == SubSeq(t, i, j)
            IN  ~(json_loads(c).kind # "err"
                  /\ QuizOutput_model_validate(json_loads(c)).ok)

\* C1: generate_quiz never raises to its caller: whatever the LLM call does
\* and whatever validate is, no exception leaves the call, and a finished call
\* has returned a list of QuizQuestion
C1_NeverRaises ==
    /\ gq_result.kind # "exc"
    /\ Done => /\ gq_result.kind = "ok"
               /\ \A i \in 1..Len(gq_result.val) :
                     DOMAIN gq_result.val[i] = TextFields \cup {"correct_answer", "validation"}

C1_Witness ==
    /\ ReturnedList
    /\ completion.kind = "none"
    /\ llm_calls = 1

\* C2: every sequence generate_quiz returns is non-empty and each element
\* satisfies the QuizQuestion schema
C2_NonEmptySchemaValid ==
    ReturnedList =>
        /\ Len(gq_result.val) >= 1
        /\ \A i \in 1..Len(gq_result.val) : SatisfiesSchema(gq_result.val[i])

\* C3: when the LLM call raises, or no substring of the response parses into
\* a valid question set, generate_quiz returns exactly the dummy question
C3_SentinelOnFailure ==
    (Done /\ (\/ completion.kind = "raise"
              \/ completion.kind = "text" /\ NoSubstringParses(completion.text)))
        => gq_result.kind = "ok" /\ IsSentinel(gq_result.val)

C3_Witness ==
    /\ ReturnedList
    /\ completion.kind = "text"
    /\ \E i \in 1..Len(completion.text) : completion.text[i] = "qs["
    /\ NoSubstringParses(completion.text)
    /\ IsSentinel(gq_result.val)

\* C4: a response that is a well-formed question set of K schema-valid
\* questions, with validate=false, is returned as exactly those K questions, in
\* order, with trimmed field values, whatever num_questions is
C4_ReturnsParsedQuestions ==
    (Done /\ ~validate /\ completion.kind = "text")
        => LET json == DropWS(completion.text)
           IN  \A r \in RenderedValidLists :
                  json = r.text
                      => gq_result.kind = "ok" /\ QuestionsOf(gq_result.val, r.list)

C4_Witness ==
    /\ ReturnedList
    /\ ~validate
    /\ completion.kind = "text"
    /\ DropWS(completion.text) = RenderQuestions(<<"qB", "qA">>)
    /\ completion.text # RenderQuestions(<<"qB", "qA">>)
    /\ num_questions # 2
    /\ QuestionsOf(gq_result.val, <<"qB", "qA">>)

\* C5: a response holding one valid question set inside arbitrary prose, with
\* or without braces in the prose, yields the questions of that set
C5_RecoversEmbeddedObject ==
    (Done /\ completion.kind = "text")
        => \A l \in ValidLists : \A pre \in Prose : \A post \in Prose :
              completion.text = pre \o RenderQuestions(l) \o post
                  => gq_result.kind = "ok" /\ QuestionsOf(gq_result.val, l)

\* generation succeeded: the LLM returned text and the whole text, or a match
\* of the fallback scan, is a valid question set
GenerationSucceeded ==
    /\ completion.kind = "text"
    /\ \/ CandidateOk(completion.text)
       \/ \E i \in 1..Len(re_findall(completion.text)) :
             CandidateOk(re_findall(completion.text)[i])

\* C6: with validate=true and a successful generation, by whichever step of
\* the extraction, every returned question has a ValidationResult attached
C6_ValidatedWhenRequested ==
    (ReturnedList /\ validate /\ GenerationSucceeded)
        => \A i \in 1..Len(gq_result.val) : gq_result.val[i].validation # NoneVal

\* C7: with validate=false the agent is never run and no returned question
\* carries a validation; the API object has the validation key exactly when
\* a ValidationResult is attached
C7_NoValidationUnlessRequested ==
    (ReturnedList /\ ~validate)
        => /\ agent_runs = 0
           /\ \A i \in 1..Len(gq_result.val) :
                 /\ gq_result.val[i].validation = NoneVal
                 /\ ~to_api_format(gq_result.val[i]).has_validation

\* C8: validate_answer never raises and always returns a ValidationResult,
\* whatever the agent run does
C8_ValidateAnswerNeverRaises ==
    /\ va_result # Pending
          => va_result.kind = "ok" /\ va_result.val.kind = "ValidationResult"
    /\ app_va_result # Pending
          => app_va_result.kind = "ok" /\ app_va_result.val.kind = "ValidationResult"

\* C9: every failure inside validate_answer yields is_correct unknown and no
\* sources; a JSON-decode failure of the extracted verdict text yields the
\* parse-failed explanation, any other exception an explanation that includes
\* its message
C9_FailureYieldsUnknown ==
    LET t == validate_answer_try(agent_stub)
    IN  (va_result # Pending /\ t.kind = "exc")
            => /\ va_result.kind = "ok"
               /\ va_result.val.is_correct = "None"
               /\ va_result.val.sources = <<>>
               /\ IF t.exc.type = "JSONDecodeError" /\ t.bound
                  THEN va_result.val.explanation = ParseFailedText
                  ELSE \A k \in 1..Len(t.exc.msg) :
                          \E n \in 1..Len(va_result.val.explanation) :
                              va_result.val.explanation[n] = t.exc.msg[k]

\* the validations attached to the questions being validated or returned
AttachedValidations ==
    {generated_questions[i].validation : i \in 1..Len(generated_questions)}
    \cup (IF gq_result.kind = "ok"
          THEN {gq_result.val[i].validation : i \in 1..Len(gq_result.val)}
          ELSE {})
    \cup (IF va_result.kind = "ok" THEN {va_result.val} ELSE {})
    \cup (IF app_va_result.kind = "ok" THEN {app_va_result.val} ELSE {})

\* C10: every ValidationResult the pipeline produces has only sources that
\* start with http and are longer than 10 characters; a verdict with other
\* entries keeps its is_correct and loses those entries
C10_SourcesUrlShaped ==
    /\ \A v \in AttachedValidations \ {NoneVal} :
          \A k \in 1..Len(v.sources) :
              v.sources[k].head = "http" /\ v.sources[k].len > 10
    /\ (va_result # Pending /\ agent_stub = AgentText(<<"{", "vBadSrc", "}">>))
          => va_result.kind = "ok" /\ va_result.val.is_correct = "true"

\* the questions handed to validate_quiz_questions: those parsed from the
\* response of the LLM
InputQuestions == generate_quiz_try(completion).val

\* q is the question p, whatever validation is attached to it
SameQuestion(q, p) == \A f \in TextFields \cup {"correct_answer"} : q[f] = p[f]

\* C11: validate_quiz_questions on N questions returns a sequence of length N
\* whose i-th element is the i-th input question, whatever the outcome of each
\* question's validation
C11_ReturnsAllInOrder ==
    vq_result # Pending
        => /\ vq_result.kind = "ok"
           /\ Len(vq_result.val) = Len(InputQuestions)
           /\ \A i \in 1..Len(InputQuestions) :
                 SameQuestion(vq_result.val[i], InputQuestions[i])

\* C12: the agent runs of the questions can overlap: while the agent run of
\* one question is in progress and another question's task has not begun,
\* that task can begin its own agent run
C12_AgentRunsOverlap ==
    (pc = "gather" /\ started = next_task /\ started < Len(generated_questions))
        => ENABLED StartTask

\* C13: whatever the agent does for each question, the caller of generate_quiz
\* with validate=true receives all N questions, each with a validation
\* attached, and each question whose own validation did not fail carries the
\* ValidationResult of its own agent outcome
C13_SiblingsUnaffected ==
    (Done /\ vq_result # Pending)
        => /\ gq_result.kind = "ok"
           /\ Len(gq_result.val) = Len(task_out)
           /\ \A i \in 1..Len(task_out) :
                 /\ gq_result.val[i].validation # NoneVal
                 /\ validate_answer(task_out[i]).kind = "ok"
                       => gq_result.val[i].validation = validate_answer(task_out[i]).val

\* C14: validate_quiz_questions ends only after every one of the N tasks has
\* completed, and when it returns every question carries the ValidationResult
\* of its own task
C14_JoinPoint ==
    /\ vq_result # Pending
          => /\ started = Len(generated_questions)
             /\ Len(task_out) = Len(generated_questions)
    /\ vq_result.kind = "ok"
          => \A i \in 1..Len(vq_result.val) :
                /\ vq_result.val[i].validation.kind = "ValidationResult"
                /\ vq_result.val[i].validation = validate_answer(task_out[i]).val

C14_Witness ==
    /\ vq_result.kind = "ok"
    /\ Len(vq_result.val) = 2
    /\ task_out[1] # task_out[2]
    /\ vq_result.val[1].validation # vq_result.val[2].validation

\* the keyword arguments d break a constraint of QuizQuestion
ViolatesSchema(d) ==
    \/ d.correct_answer \notin {<<"a">>, <<"b">>, <<"c">>, <<"d">>}
    \/ \E f \in TextFields : \A k \in 1..Len(d[f]) : d[f][k] \in WS

\* C15: constructing a QuizQuestion fails whenever correct_answer is not
\* exactly a, b, c or d and whenever a text field is empty or whitespace-only,
\* and generate_quiz returns no question that breaks these constraints
C15_InvalidRejected ==
    /\ (pc = "built" /\ ViolatesSchema(qq_input)) => ~qq_result.ok
    /\ ReturnedList
          => \A i \in 1..Len(gq_result.val) : SatisfiesSchema(gq_result.val[i])

C15_Witness ==
    /\ pc = "built"
    /\ qq_input.correct_answer = <<"a", "nl">>
    /\ \A f \in TextFields : qq_input[f] # <<>> /\ \A k \in 1..Len(qq_input[f]) : qq_input[f][k] \notin WS
    /\ ~qq_result.ok

\* the keyword arguments made of the field values of a constructed question
Rebuilt(q) ==
    [question |-> q.question, option_a |-> q.option_a, option_b |-> q.option_b,
     option_c |-> q.option_c, option_d |-> q.option_d,
     correct_answer |-> q.correct_answer, explanation |-> q.explanation,
     validation |-> NoValidationKey]

\* C16: each text field of a constructed QuizQuestion is the input text with
\* the whitespace at both ends removed, and a question rebuilt from the field
\* values of a constructed question has the same field values
C16_TrimmedIdempotent ==
    (pc = "built" /\ qq_result.ok)
        => /\ \A f \in TextFields : IsTrimOf(qq_result.val[f], qq_input[f])
           /\ QuizQuestionInit(Rebuilt(qq_result.val)).ok
           /\ SameQuestion(QuizQuestionInit(Rebuilt(qq_result.val)).val, qq_result.val)

C16_Witness ==
    /\ pc = "built"
    /\ qq_result.ok
    /\ qq_input.option_b = <<"sp", "x", "sp", "y", "nl">>
    /\ qq_result.val.option_b = <<"x", "sp", "y">>

\* C17: a POST whose learning_objective is missing or empty, or that has no
\* usable JSON body, is answered 400 with the error "Learning objective is
\* required", whatever num_questions and validate are
C17_MissingObjective400 ==
    (response # NoResponse
       /\ (request.body # "object" \/ request.learning_objective # "text"))
        => /\ response.status = 400
           /\ response.key = "error"
           /\ response.error = <<"Learning objective is required">>

\* the request has a JSON object body with a non-empty objective and an
\* integer, or no, num_questions
UsableRequest ==
    /\ request.body = "object"
    /\ request.learning_objective = "text"
    /\ request.num_questions.kind \in {"int", "absent"}

\* C18: the count the endpoint passes to generate_quiz is the requested
\* integer brought into 1..10: above 10 it is 10, below 1 it is 1, in between
\* it is unchanged, and 3 when the request names no count
C18_CountClamped ==
    (pc # "idle" /\ UsableRequest)
        => LET n == request.num_questions.val
           IN  num_questions =
                   IF request.num_questions.kind = "absent" THEN 3
                   ELSE IF n > 10 THEN 10
                   ELSE IF n < 1 THEN 1
                   ELSE n

C18_Witness ==
    /\ UsableRequest
    /\ request.num_questions = IntValue(15)
    /\ llm_calls = 1
    /\ num_questions = 10

\* C19: a POST with a non-empty objective and an integer num_questions is
\* answered 200 with a questions key, whatever the LLM and the agent do
C19_NoPipeline500 ==
    (pc = "responded" /\ UsableRequest)
        => response.status = 200 /\ response.key = "questions"

C19_Witness ==
    /\ pc = "responded"
    /\ UsableRequest
    /\ completion.kind = "raise"
    /\ response.status = 200
    /\ Len(response.questions) = 1

\* C20: the count generate_quiz asks the LLM for in the user prompt is in
\* 1..10, also when generate_quiz is called with a count outside that range
C20_CountReclamped ==
    pc \in {"create", "gather", "except", "done"} => user_prompt \in 1..10

\* C21: each call of generate_quiz calls the LLM exactly once, on the
\* success path, the fallback path and the dummy-question path: no call is
\* repeated after a raise or after a response that does not parse
C21_OneLLMCall ==
    /\ llm_calls <= 1
    /\ pc \in {"gather", "except", "done"} => llm_calls = 1

C21_Witness ==
    /\ ReturnedList
    /\ completion.kind = "text"
    /\ completion.text = <<"w">> \o RenderQuestions(<<"qA">>)
    /\ e.type = "JSONDecodeError"
    /\ QuestionsOf(gq_result.val, <<"qA">>)
    /\ llm_calls = 1

\* C22: two validate_answer calls with the same arguments against an agent
\* that does the same thing for the same prompt both return, and return the
\* same is_correct
C22_SameVerdictTwice ==
    va_second # Pending
        => /\ va_result.kind = "ok"
           /\ va_second.kind = "ok"
           /\ va_second.val.is_correct = va_result.val.is_correct

\* C23: a response that holds a brace-delimited fragment that is no JSON,
\* followed by a valid question set, yields the questions of that set
C23_FirstValidCandidate ==
    (Done /\ completion.kind = "text")
        => \A l \in ValidLists : \A sep \in {<<"w">>, <<"nl">>} :
              completion.text = Fragment \o sep \o RenderQuestions(l)
                  => gq_result.kind = "ok" /\ QuestionsOf(gq_result.val, l)

\* C24: when the text of the agent holds a valid verdict object that is the
\* first complete object after the last "Final Answer:" marker, or the first
\* complete object of a text without marker, validate_answer returns the
\* is_correct, explanation and sources of that object, also when other text
\* or another brace-delimited fragment follows it
C24_VerdictLocated ==
    (va_result # Pending /\ agent_stub.kind = "text")
        => \A b \in AgentBefore : \A v \in VerdictTokens : \A a \in AgentAfter :
              (/\ agent_stub.text = b \o <<"{", v, "}">> \o a
               /\ ValidationResultInit(RawVerdict(v)).ok)
                  => /\ va_result.kind = "ok"
                     /\ va_result.val = ValidationResultInit(RawVerdict(v)).val

\* the field that holds the option named by an answer letter
OptionOf == [a |-> "option_a", b |-> "option_b", c |-> "option_c", d |-> "option_d"]

\* the prompt p states the text, the designated correct option and the
\* explanation of the question q
PromptStates(p, q) ==
    /\ p.question_text = q.question
    /\ p.explanation = q.explanation
    /\ \E l \in DOMAIN OptionOf :
          q.correct_answer = <<l>> /\ p.correct_answer = q[OptionOf[l]]

\* C25: validation changes only the validation field: the questions passed
\* through validate_quiz_questions keep question, options, correct_answer and
\* explanation, the agent run of question i is asked about question i's own
\* text, designated correct option and explanation, and a validation written
\* to question i is the result of that run
C25_OnlyValidationChanges ==
    (pc = "gather" \/ vq_result # Pending)
        => LET input == vq_input
           IN  /\ Len(generated_questions) = Len(input)
               /\ \A i \in 1..Len(generated_questions) :
                     SameQuestion(generated_questions[i], input[i])
               /\ \A i \in 1..Len(task_prompt) :
                     PromptStates(task_prompt[i], input[i])
               /\ \A i \in 1..Len(task_out) :
                     validation_writes[i] > 0
                         => generated_questions[i].validation
                                = validate_answer(task_out[i]).val

C25_Witness ==
    /\ vq_result.kind = "ok"
    /\ DropWS(completion.text) = RenderQuestions(<<"qB", "qA">>)
    /\ task_prompt[1].correct_answer = <<"c2">>
    /\ task_prompt[2].correct_answer = <<"a1">>
    /\ task_out[1] = AgentText(<<"FA", "{", "vFalse", "}">>)
    /\ task_out[2] = AgentText(<<"{", "vTrue", "}">>)
    /\ vq_result.val[1].validation.is_correct = "false"
    /\ vq_result.val[2].validation.is_correct = "true"

\* C26: in one validate_quiz_questions call the agent is run exactly once
\* per question and the validation of each question is written exactly once
C26_ValidatedExactlyOnce ==
    vq_result # Pending
        => /\ agent_runs = Len(generated_questions)
           /\ \A i \in 1..Len(generated_questions) : validation_writes[i] = 1

\* the text is a JSON question set in which a question violates the schema
HasInvalidQuestion(text) ==
    LET d == json_loads(text)
    IN  /\ d.kind = "object"
        /\ d.shape = "questions"
        /\ \E i \in 1..Len(d.items) :
              d.items[i] \in QuestionTokens
                  /\ ~RawSatisfiesSchema(RawQuestion(d.items[i]))

\* C27: a response that is valid JSON with K questions of which at least one
\* violates the QuizQuestion schema yields the dummy question alone, never
\* the valid questions of the set
C27_AllOrNothing ==
    (Done /\ completion.kind = "text" /\ HasInvalidQuestion(completion.text))
        => gq_result.kind = "ok" /\ IsSentinel(gq_result.val)

C27_Witness ==
    /\ ReturnedList
    /\ completion.kind = "text"
    /\ DropWS(completion.text) = RenderQuestions(<<"qA", "qUpper">>)
    /\ HasInvalidQuestion(completion.text)
    /\ IsSentinel(gq_result.val)

\* C28: in the handler of /generate-quiz the objective check comes before the
\* count is evaluated and before generate_quiz: a request answered 400 has
\* called neither the LLM nor the agent, and a JSON object without a usable
\* objective is answered 400 also when its num_questions is no number
C28_ObjectiveCheckFirst ==
    /\ response.status = 400
          => pc = "responded" /\ llm_calls = 0 /\ agent_runs = 0
    /\ (pc = "responded" /\ request.body = "object"
                         /\ request.learning_objective # "text")
          => response.status = 400

C28_Witness ==
    /\ pc = "responded"
    /\ request.body = "object"
    /\ request.learning_objective = "empty"
    /\ request.num_questions = StrValue
    /\ response.status = 400
    /\ llm_calls = 0

\* C29: the two validate_answer variants agree: for every outcome of the
\* agent both return a ValidationResult, with the same is_correct and the
\* same sources
C29_VariantsEquivalent ==
    (va_result # Pending /\ app_va_result # Pending)
        => /\ va_result.kind = "ok"
           /\ app_va_result.kind = "ok"
           /\ va_result.val.is_correct = app_va_result.val.is_correct
           /\ va_result.val.sources = app_va_result.val.sources

\* C30: in quiz_state, under every interleaving of the callbacks, each key of
\* student_answers is a question index of current_quiz and was recorded for
\* that quiz, and submit_student_quiz neither scores a quiz with answers given
\* to another one nor divides by a question count of zero
C30_AnswersBelongToCurrentQuiz ==
    /\ quiz_state.current_quiz # NoQuiz
          => \A p \in quiz_state.student_answers :
                /\ p[1] < quiz_state.current_quiz.questions
                /\ p[2] = quiz_state.current_quiz.gen
    /\ submit_result.kind # "ZeroDivisionError"
    /\ ~submit_result.stale

====
